---- MODULE Spec2Model ----
(***************************************************************************)
(* CogMyra RAG proxy (Cloudflare Worker): the fetch handler, the           *)
(* process-wide State it shares between requests, and the helpers it       *)
(* calls.  Every await of the handler that is followed by an access to     *)
(* State is a suspension point at which other requests may run.            *)
(***************************************************************************)
EXTENDS Integers, Sequences, FiniteSets, Bags, TLC

VARIABLES
    State,      \* the module-level STATE object (STATE is a reserved word)
    inflight,   \* bag of requests suspended at an await
    out,        \* the Response a handler has just returned (NoOut otherwise)
    probe       \* a helper run on its own: its arguments and what it returned

vars == <<State, inflight, out, probe>>

(***************************************************************************)
(* Bounds and input sets                                                   *)
(***************************************************************************)
\* number of requests that may be suspended at the same time
MaxInflight == 2
\* number of records of an index handed to rank on its own
MaxRecords == 3
\* largest k handed to rank on its own
MaxK == 4
\* largest number of components of the vectors handed to cosSim on its own
MaxDims == 2

Null == "null"
Undefined == [undefined |-> TRUE]

\* what JSON.parse gives, written with its type: null, a boolean, a number, a
\* string, an array (the sequence of its elements) or an object (the function
\* of its field names to their values)
JNull == [type |-> "null"]
JBool(b) == [type |-> "boolean", bool |-> b]
JNum(n) == [type |-> "number", num |-> n]
JStr(t) == [type |-> "string", str |-> t]
JArr(a) == [type |-> "array", items |-> a]
JObj(o) == [type |-> "object", fields |-> o]

\* {}
EmptyObject == JObj([f \in {} |-> f])

\* !v holds: v is undefined, null, false, 0 or ""
Falsy(v) == v \in {Undefined, JNull, JBool(FALSE), JNum(0), JStr("")}
NoOut == [none |-> TRUE]
NoProbe == [fn |-> "none"]

Urls == {"https://kb/a.json", "https://kb/b.json"}
Methods == {"GET", "POST", "OPTIONS"}
Paths == {"/api/health", "/api/chat", "/api/other"}
Timestamps == {"2025-01-01T00:00:00.000Z", "2025-01-02T00:00:00.000Z"}

\* values of the x-app-key header (Null: header absent) and of the secret
GoodKey == "abc123"
HeaderKeys == {Null, "", GoodKey, "wrong"}
EnvKeys == {GoodKey}

ALLOW_ORIGIN == <<"http://localhost:5500", "https://cogmyra.com", "https://www.cogmyra.com">>

\* Origin header values (Null: header absent)
Origins == {Null, "http://localhost:5500", "https://cogmyra.com",
            "https://www.cogmyra.com", "https://evil.example", "*"}
\* origins of the requests the handler is run on
RunOrigins == {Null}

Range(s) == {s[i] : i \in DOMAIN s}

(***************************************************************************)
(* Headers and responses                                                   *)
(***************************************************************************)
HSet(h, k, v) == [x \in (DOMAIN h) \cup {k} |-> IF x = k THEN v ELSE h[x]]

\* a policy that hands back whatever origin asks
corsEcho(origin) ==
    LET allow == IF origin # Null /\ origin # "" THEN origin ELSE ALLOW_ORIGIN[2]
    IN  [x \in {"access-control-allow-origin", "access-control-allow-headers",
                "access-control-allow-methods", "access-control-expose-headers"} |->
            CASE x = "access-control-allow-origin" -> allow
              [] x = "access-control-allow-headers" -> "Content-Type, Authorization, x-app-key"
              [] x = "access-control-allow-methods" -> "GET, POST, OPTIONS"
              [] OTHER -> "X-CogMyra-Model, X-CogMyra-Prompt-Hash"]

cors(origin) ==
    LET allow == IF origin # Null /\ origin # "" /\ origin \in Range(ALLOW_ORIGIN)
                 THEN origin ELSE ALLOW_ORIGIN[2]
    IN  [x \in {"access-control-allow-origin", "access-control-allow-headers",
                "access-control-allow-methods", "access-control-expose-headers"} |->
            CASE x = "access-control-allow-origin" -> allow
              [] x = "access-control-allow-headers" -> "Content-Type, Authorization, x-app-key"
              [] x = "access-control-allow-methods" -> "GET, POST, OPTIONS"
              [] OTHER -> "X-CogMyra-Model, X-CogMyra-Prompt-Hash"]

textError(e, origin, status) ==
    [status |-> status,
     headers |-> HSet(cors(origin), "content-type", "text/plain; charset=utf-8"),
     body |-> e]

\* the headers of new Response(JSON.stringify(..), { status: 200, headers: h }):
\* h, and the content-type the constructor gives a string body when h has none
jsonResponseHeaders(origin) ==
    HSet(HSet(HSet(cors(origin), "X-CogMyra-Model", "gpt-5"),
              "X-CogMyra-Prompt-Hash", "sha256(sys)"),
         "content-type", "text/plain;charset=UTF-8")

(***************************************************************************)
(* The index document and the upstream collaborators                       *)
(***************************************************************************)
DocA ==
    [created |-> "2024-12-01T00:00:00.000Z", model |-> "text-embedding-3-large", dims |-> 2, count |-> 2,
     records |-> << [id |-> "a0", file |-> "a.md", chunkIndex |-> 0, text |-> "alpha",
                     embedding |-> <<1, 0>>],
                    [id |-> "a1", file |-> "a.md", chunkIndex |-> 1, text |-> "be",
                     embedding |-> <<0, 1>>] >>]
DocB ==
    [created |-> "2024-12-02T00:00:00.000Z", model |-> "text-embedding-3-large", dims |-> 2, count |-> 1,
     records |-> << [id |-> "b0", file |-> "b.md", chunkIndex |-> 0, text |-> "gamma",
                     embedding |-> <<3, 4>>] >>]

\* an index built from an empty knowledge base
DocEmpty ==
    [created |-> "2024-12-03T00:00:00.000Z", model |-> "text-embedding-3-large", dims |-> 2, count |-> 0,
     records |-> <<>>]

\* a document whose count is not the number of its records
DocStale ==
    [created |-> "2024-12-02T00:00:00.000Z", model |-> "text-embedding-3-large", dims |-> 2, count |-> 2,
     records |-> << [id |-> "b0", file |-> "b.md", chunkIndex |-> 0, text |-> "gamma",
                     embedding |-> <<3, 4>>] >>]

\* the index documents a URL may serve
Documents(url) == IF url = "https://kb/a.json" THEN {DocA, DocEmpty} ELSE {DocB, DocStale}

\* what res.json() of a URL may give: one of its documents, or, at one URL,
\* the JSON value null
IndexAt(url) ==
    Documents(url) \cup (IF url = "https://kb/a.json" THEN {} ELSE {JNull})

\* `Failed to fetch index: ${res.status} ${res.statusText}`, and the SyntaxError
\* of res.json() on the body <html>
FetchErrors == {"Failed to fetch index: 404 Not Found",
                "Unexpected token '<', \"<html>\" is not valid JSON"}
\* `OpenAI embed error: ${r.status} ${r.statusText}\n${t}` with t the body upstream
EmbedErrors == {"OpenAI embed error: 500 Internal Server Error\nupstream"}
ChatErrors == {"OpenAI error 500: upstream"}
QueryEmbeddings == {<<1, 0>>}
Completions == {[id |-> "chatcmpl-1", model |-> "gpt-5-2025", choices |-> "answer"]}

\* embeddings of the records and of the query of the ranker run on its own
ProbeEmbeddings == {<<10, 0>>, <<0, 10>>, <<7, 7>>, <<0, 0>>, <<3, 3>>, <<-10, 0>>}

Ok(v) == [ok |-> TRUE, value |-> v]
Err(m) == [ok |-> FALSE, message |-> m]

\* outcomes of the awaited calls: a value, or a thrown Error with its message
fetchIndex(url) == {Ok(d) : d \in IndexAt(url)} \cup {Err(m) : m \in FetchErrors}
embedQuery == {Ok(v) : v \in QueryEmbeddings} \cup {Err(m) : m \in EmbedErrors}
callChat == {Ok(c) : c \in Completions} \cup {Err(m) : m \in ChatErrors}

(***************************************************************************)
(* Numbers.  A JavaScript number is an IEEE 754 double.  The integers the  *)
(* ranker adds and multiplies are small and exact; Math.sqrt, * and / round *)
(* to the nearest double, ties to even.  A natural number of any size is   *)
(* the sequence of its digits in base 2^15, lowest first, with no leading  *)
(* zero; a double other than zero is sign * man * 2^exp with                *)
(* 2^52 <= man < 2^53 (the scores of the ranker are far from the subnormal  *)
(* and the infinite range).                                                 *)
(***************************************************************************)
Base == 32768
LimbBits == 15
Precision == 53

RECURSIVE Pow2(_)
Pow2(k) == IF k = 0 THEN 1 ELSE 2 * Pow2(k - 1)

RECURSIVE BigOf(_)
BigOf(n) == IF n = 0 THEN <<>> ELSE <<n % Base>> \o BigOf(n \div Base)

RECURSIVE BigTrim(_)
BigTrim(x) ==
    IF x # <<>> /\ x[Len(x)] = 0 THEN BigTrim(SubSeq(x, 1, Len(x) - 1)) ELSE x

Limb(x, i) == IF i \in DOMAIN x THEN x[i] ELSE 0

\* x + y from digit i on, with carry c
RECURSIVE BigAddFrom(_, _, _, _)
BigAddFrom(x, y, i, c) ==
    IF i > Len(x) /\ i > Len(y)
    THEN IF c = 0 THEN <<>> ELSE <<c>>
    ELSE LET t == Limb(x, i) + Limb(y, i) + c
         IN  <<t % Base>> \o BigAddFrom(x, y, i + 1, t \div Base)

BigAdd(x, y) == BigAddFrom(x, y, 1, 0)

\* x * k for one digit k, from digit i on, with carry c
RECURSIVE BigTimesFrom(_, _, _, _)
BigTimesFrom(x, k, i, c) ==
    IF i > Len(x)
    THEN IF c = 0 THEN <<>> ELSE <<c>>
    ELSE LET t == x[i] * k + c
         IN  <<t % Base>> \o BigTimesFrom(x, k, i + 1, t \div Base)

\* x * Base^n
ShiftLimbs(x, n) == IF x = <<>> THEN <<>> ELSE [i \in 1..n |-> 0] \o x

\* x * (the digits of y from digit j on)
RECURSIVE BigMulFrom(_, _, _)
BigMulFrom(x, y, j) ==
    IF j > Len(y) THEN <<>>
    ELSE BigAdd(ShiftLimbs(BigTrim(BigTimesFrom(x, y[j], 1, 0)), j - 1),
                BigMulFrom(x, y, j + 1))

BigMul(x, y) == BigMulFrom(x, y, 1)

\* -1, 0, 1 as x is below, equal to, above y, looking at digit i and below
RECURSIVE BigCmpFrom(_, _, _)
BigCmpFrom(x, y, i) ==
    IF i = 0 THEN 0
    ELSE IF x[i] < y[i] THEN -1
    ELSE IF x[i] > y[i] THEN 1
    ELSE BigCmpFrom(x, y, i - 1)

BigCmp(x, y) ==
    IF Len(x) < Len(y) THEN -1
    ELSE IF Len(x) > Len(y) THEN 1
    ELSE BigCmpFrom(x, y, Len(x))

\* the number of binary digits
RECURSIVE SmallBits(_)
SmallBits(n) == IF n = 0 THEN 0 ELSE 1 + SmallBits(n \div 2)

BitLen(x) == IF x = <<>> THEN 0 ELSE LimbBits * (Len(x) - 1) + SmallBits(x[Len(x)])

\* x * 2^s
BigShl(x, s) ==
    BigTrim(BigTimesFrom(ShiftLimbs(x, s \div LimbBits), Pow2(s % LimbBits), 1, 0))

\* floor(x / 2^s)
BigShr(x, s) ==
    LET q == s \div LimbBits
        r == s % LimbBits
    IN  IF Len(x) <= q THEN <<>>
        ELSE BigTrim(<<>> \o [j \in 1..(Len(x) - q) |->
                                (x[q + j] \div Pow2(r))
                                    + (Limb(x, q + j + 1) % Pow2(r)) * Pow2(LimbBits - r)])

\* binary digit i of x, the lowest being digit 0
BigBit(x, i) == (Limb(x, i \div LimbBits + 1) \div Pow2(i % LimbBits)) % 2

\* x - y for x >= y, from digit i on, with borrow c
RECURSIVE BigSubFrom(_, _, _, _)
BigSubFrom(x, y, i, c) ==
    IF i > Len(x) THEN <<>>
    ELSE LET t == x[i] - Limb(y, i) - c
         IN  <<(t + Base) % Base>> \o BigSubFrom(x, y, i + 1, IF t < 0 THEN 1 ELSE 0)

BigSub(x, y) == BigTrim(BigSubFrom(x, y, 1, 0))

\* one step of the long division of n by m in base 2: st.r is the remainder and
\* st.q the quotient of the binary digits of n above digit st.i
BigDivStep(n, m, st) ==
    LET r == BigAdd(BigShl(st.r, 1), BigOf(BigBit(n, st.i)))
        q == BigShl(st.q, 1)
    IN  IF BigCmp(r, m) >= 0
        THEN [q |-> BigAdd(q, <<1>>), r |-> BigSub(r, m), i |-> st.i - 1]
        ELSE [q |-> q, r |-> r, i |-> st.i - 1]

\* k steps: the first half of them, then the others
RECURSIVE BigDivSteps(_, _, _, _)
BigDivSteps(n, m, st, k) ==
    IF k = 0 THEN st
    ELSE IF k = 1 THEN BigDivStep(n, m, st)
    ELSE CHOOSE r \in {BigDivSteps(n, m, mid, k - k \div 2) :
                          mid \in {BigDivSteps(n, m, st, k \div 2)}} : TRUE

\* q = floor(n / m) and r = n - q * m, for m > 0: the binary digits of n that
\* make a number below m are taken at once
BigDivMod(n, m) ==
    LET k == IF BitLen(n) < BitLen(m) THEN 0 ELSE BitLen(n) - BitLen(m) + 1
    IN  BigDivSteps(n, m, [q |-> <<>>, r |-> BigShr(n, k), i |-> k - 1], k)

\* one step of the square root of n in base 2: st.root is the root and st.r the
\* remainder of the pairs of binary digits of n above pair st.i
BigSqrtStep(n, st) ==
    LET r == BigAdd(BigShl(st.r, 2),
                    BigOf(2 * BigBit(n, 2 * st.i + 1) + BigBit(n, 2 * st.i)))
        t == BigAdd(BigShl(st.root, 2), <<1>>)
        root == BigShl(st.root, 1)
    IN  IF BigCmp(r, t) >= 0
        THEN [root |-> BigAdd(root, <<1>>), r |-> BigSub(r, t), i |-> st.i - 1]
        ELSE [root |-> root, r |-> r, i |-> st.i - 1]

RECURSIVE BigSqrtSteps(_, _, _)
BigSqrtSteps(n, st, k) ==
    IF k = 0 THEN st
    ELSE IF k = 1 THEN BigSqrtStep(n, st)
    ELSE CHOOSE r \in {BigSqrtSteps(n, mid, k - k \div 2) :
                          mid \in {BigSqrtSteps(n, st, k \div 2)}} : TRUE

\* root = floor(sqrt(n)) and r = n - root * root
BigSqrtRem(n) ==
    LET k == (BitLen(n) + 1) \div 2
    IN  BigSqrtSteps(n, [root |-> <<>>, r |-> <<>>, i |-> k - 1], k)

Zero == [sign |-> 0, man |-> <<>>, exp |-> 0]

\* the double nearest to sign * x * 2^e, ties to even; inexact says that the
\* number rounded lies above x * 2^e by less than 2^e
Round(sign, x, e, inexact) ==
    LET len == BitLen(x)
        s == len - Precision
    IN  IF x = <<>> THEN Zero
        ELSE IF s <= 0 THEN [sign |-> sign, man |-> BigShl(x, 0 - s), exp |-> e + s]
        ELSE LET q == BigShr(x, s)
                 half == BigBit(x, s - 1) = 1
                 rest == inexact \/ BigShl(BigShr(x, s - 1), s - 1) # x
                 up == half /\ (rest \/ q[1] % 2 = 1)
                 m == IF up THEN BigAdd(q, <<1>>) ELSE q
             IN  IF BitLen(m) > Precision
                 THEN [sign |-> sign, man |-> BigShr(m, 1), exp |-> e + s + 1]
                 ELSE [sign |-> sign, man |-> m, exp |-> e + s]

Sgn(n) == IF n < 0 THEN -1 ELSE IF n > 0 THEN 1 ELSE 0
Abs(n) == IF n < 0 THEN 0 - n ELSE n

\* the double of an integer
DblOf(n) == Round(Sgn(n), BigOf(Abs(n)), 0, FALSE)

\* Math.sqrt(n) of an integer n >= 0
DblSqrt(n) ==
    LET res == BigSqrtRem(BigShl(BigOf(n), 110))
    IN  Round(1, res.root, -55, res.r # <<>>)

\* x * y
DblMul(x, y) ==
    IF x.sign = 0 \/ y.sign = 0 THEN Zero
    ELSE Round(x.sign * y.sign, BigMul(x.man, y.man), x.exp + y.exp, FALSE)

\* x / y, y not zero
DblDiv(x, y) ==
    IF x.sign = 0 THEN Zero
    ELSE LET res == BigDivMod(BigShl(x.man, 56), y.man)
         IN  Round(x.sign * y.sign, res.q, x.exp - y.exp - 56, res.r # <<>>)

\* -1, 0, 1 as x is below, equal to, above y
DblCmp(x, y) ==
    IF x.sign # y.sign THEN (IF x.sign < y.sign THEN -1 ELSE 1)
    ELSE IF x.sign = 0 THEN 0
    ELSE IF x.exp # y.exp THEN (IF x.exp < y.exp THEN 0 - x.sign ELSE x.sign)
    ELSE x.sign * BigCmp(x.man, y.man)

(***************************************************************************)
(* Similarity ranker.  Vector components are integers, so the sums of dot   *)
(* and norm are exact; the square roots, their product and the quotient     *)
(* are doubles.                                                             *)
(***************************************************************************)
RECURSIVE SumTo(_, _)
SumTo(f, n) == IF n = 0 THEN 0 ELSE f[n] + SumTo(f, n - 1)

dot(a, b) == SumTo([i \in 1..Len(a) |-> a[i] * b[i]], Len(a))

\* the sum s of which norm returns the square root
normSquared(a) == SumTo([i \in 1..Len(a) |-> a[i] * a[i]], Len(a))

\* the embeddings the ranker is run on, and the vectors of equal length
\* cosSim is run on by itself
RankedVectors ==
    ProbeEmbeddings \cup QueryEmbeddings
        \cup UNION {{d.records[i].embedding : i \in DOMAIN d.records} :
                      d \in UNION {Documents(u) : u \in Urls}}
ProbeVectors(n) == [1..n -> {-1, 0, 1, 2}]
VectorPairs ==
    (RankedVectors \X RankedVectors)
        \cup UNION {ProbeVectors(n) \X ProbeVectors(n) : n \in 1..MaxDims}

\* Math.sqrt of the sums of squares of these vectors, as a table
SqrtOf == [s \in {normSquared(p[1]) : p \in VectorPairs} |-> DblSqrt(s)] @@ <<>>

norm(a) == SqrtOf[normSquared(a)]

\* 0 / 0
NaN == [sign |-> 0, man |-> <<>>, exp |-> 1]

\* d / n without the test of n
cosSimUnguarded(a, b) ==
    LET d == dot(a, b)
        n == DblMul(norm(a), norm(b))
    IN  IF n.sign # 0 THEN DblDiv(DblOf(d), n) ELSE NaN

\* d / n with n = norm(a) * norm(b), and 0 when n is 0
cosSimOf(a, b) ==
    LET d == dot(a, b)
        n == DblMul(norm(a), norm(b))
    IN  IF n.sign # 0 THEN DblDiv(DblOf(d), n) ELSE Zero

\* the similarities of the pairs of vectors above, as a table
CosSimOfPairs == [p \in VectorPairs |-> cosSimOf(p[1], p[2])] @@ <<>>

cosSim(a, b) == CosSimOfPairs[<<a, b>>]

\* the comparator b.score - a.score of the sort: positive when b goes first
ScoreGreater(x, y) == DblCmp(x, y) > 0

\* an insertion that puts x in front of the elements of equal score
RECURSIVE InsertUnstable(_, _)
InsertUnstable(s, x) ==
    IF s = <<>> THEN <<x>>
    ELSE IF ~ScoreGreater(s[Len(s)].score, x.score)
         THEN Append(InsertUnstable(SubSeq(s, 1, Len(s) - 1), x), s[Len(s)])
         ELSE Append(s, x)

\* scored.sort(cmp) is stable: x goes behind the elements it does not beat
RECURSIVE InsertStable(_, _)
InsertStable(s, x) ==
    IF s = <<>> THEN <<x>>
    ELSE IF ScoreGreater(x.score, s[Len(s)].score)
         THEN Append(InsertStable(SubSeq(s, 1, Len(s) - 1), x), s[Len(s)])
         ELSE Append(s, x)

RECURSIVE SortDesc(_, _)
SortDesc(s, n) == IF n = 0 THEN <<>> ELSE InsertStable(SortDesc(s, n - 1), s[n])

Min(a, b) == IF a < b THEN a ELSE b

\* a ranker that leaves the records in the order of the index
rankUnsorted(envIndex, qEmb, k) ==
    LET scored == [i \in 1..Len(envIndex.records) |->
                      [rec |-> envIndex.records[i],
                       score |-> cosSim(qEmb, envIndex.records[i].embedding)]]
    IN  SubSeq(scored, 1, Min(k, Len(scored)))

rank(envIndex, qEmb, k) ==
    LET scored == [i \in 1..Len(envIndex.records) |->
                      [rec |-> envIndex.records[i],
                       score |-> cosSim(qEmb, envIndex.records[i].embedding)]]
        sorted == SortDesc(scored, Len(scored))
    IN  SubSeq(sorted, 1, Min(k, Len(sorted)))

(***************************************************************************)
(* Context assembly.  A string is written as the sequence of its lexemes    *)
(* (the string is their concatenation): the literal pieces of the          *)
(* templates, and the pieces of the file names and chunk texts.  The dash   *)
(* of the header line is U+2014 in the source.                              *)
(***************************************************************************)
\* `[file: ${file}, chunk: ${chunkIndex}]`
citeTag(file, chunkIndex) ==
    <<"[file: ">> \o file \o <<", chunk: ", ToString(chunkIndex), "]">>

\* `${head}\n${rec.text}\n${citeTag(rec.file, rec.chunkIndex)}`
ragBlock(rec) ==
    <<"## ">> \o rec.file \o <<" -- chunk ", ToString(rec.chunkIndex)>>
        \o <<"\n">> \o rec.text \o <<"\n">> \o citeTag(rec.file, rec.chunkIndex)

\* blocks.join("\n\n---\n\n")
RECURSIVE JoinBlocks(_, _)
JoinBlocks(blocks, n) ==
    IF n = 0 THEN <<>>
    ELSE IF n = 1 THEN blocks[1]
    ELSE JoinBlocks(blocks, n - 1) \o <<"\n\n---\n\n">> \o blocks[n]

buildRagContext(top) == JoinBlocks([i \in 1..Len(top) |-> ragBlock(top[i].rec)], Len(top))

(***************************************************************************)
(* The query of a chat request.  A request body is text that parses as a    *)
(* JSON value or does not.  What a piece of the handler yields is a JSON    *)
(* value, or the Error it throws.                                           *)
(***************************************************************************)
\* await request.json().catch(() => ({}))
requestJson(body) == IF body.json THEN body.value ELSE EmptyObject

\* v is null or undefined: what ?. and ?? test
Nullish(v) == v = Undefined \/ v = JNull

\* v.k for v other than null and undefined and k one of messages, role, content:
\* the field of an object that has it, undefined on everything else
Get(v, k) == IF v.type = "object" /\ k \in DOMAIN v.fields THEN v.fields[k] ELSE Undefined

\* body?.messages ?? []
messagesOf(body) ==
    LET m == IF Nullish(body) THEN Undefined ELSE Get(body, "messages")
    IN  IF Nullish(m) THEN JArr(<<>>) ELSE m

\* m.role === "user"
IsUser(m) ==
    LET role == Get(m, "role")
    IN  role # Undefined /\ role.type = "string" /\ role.str = "user"

\* ?.content ?? ""
contentOf(m) ==
    LET content == Get(m, "content")
    IN  IF Nullish(content) THEN JStr("") ELSE content

\* reverse().find((m) => m.role === "user")?.content ?? "" on the elements of
\* an array, looking at messages[n] and then at the elements before it; the
\* role of null cannot be read
RECURSIVE lastUserUpTo(_, _)
lastUserUpTo(messages, n) ==
    IF n = 0 THEN JStr("")
    ELSE IF messages[n] = JNull
    THEN Err("Cannot read properties of null (reading 'role')")
    ELSE IF IsUser(messages[n]) THEN contentOf(messages[n])
    ELSE lastUserUpTo(messages, n - 1)

\* [...messages] takes the elements of an array and the characters of a
\* string, which have no role; nothing else can be spread
userPromptFrom(messages) ==
    IF messages = Undefined THEN Err("messages is not iterable")
    ELSE IF messages.type = "array" THEN lastUserUpTo(messages.items, Len(messages.items))
    ELSE IF messages.type = "string" THEN JStr("")
    ELSE Err("messages is not iterable")

\* v is an Error thrown, not a JSON value
Thrown(v) == DOMAIN v = {"ok", "message"}

(***************************************************************************)
(* The fetch handler, cut at its awaits.  Each piece maps the request, the *)
(* awaited outcome and State to: the new State, the suspended request (if  *)
(* it awaits again) and the Response (if it returns).                      *)
(***************************************************************************)
\* the log of the upstream calls a request has started: a call just started,
\* with what it is asked for (the URL of the index, the text to embed, the
\* user text of the completion)
Call(name, input) == [call |-> name, input |-> input, result |-> "pending", error |-> Null]

\* the pending call of the log settled with outcome o
Settle(calls, o) ==
    [calls EXCEPT ![Len(calls)] =
        [call |-> @.call, input |-> @.input, result |-> IF o.ok THEN "ok" ELSE "fail",
         error |-> IF o.ok THEN Null ELSE o.message]]

Suspend(st, r, pc, calls, top) ==
    [state |-> st,
     resume |-> <<[req |-> r.req, env |-> r.env, pc |-> pc, calls |-> calls, top |-> top]>>,
     resp |-> <<>>, calls |-> calls]

Return(st, resp, calls) ==
    [state |-> st, resume |-> <<>>, resp |-> <<resp>>, calls |-> calls]

\* a new request, before the handler has run
Incoming(req, env) == [req |-> req, env |-> env, pc |-> "start", calls |-> <<>>, top |-> <<>>]

\* a gate that only tests that the header is present
KeyOkPresent(appKey, envKey) == appKey # Null /\ appKey # ""

\* the app-key gate lets the request through
KeyOk(appKey, envKey) == appKey # Null /\ appKey # "" /\ appKey = envKey

\* a rejection that tells a missing key from a wrong one
gateRejectLeaky(req) ==
    textError(IF req.appKey = Null THEN "Forbidden: missing x-app-key"
              ELSE "Forbidden: bad x-app-key", req.origin, 403)

\* the answer of the gate to a request it stops
gateReject(req) == textError("Forbidden: bad or missing x-app-key", req.origin, 403)

\* a preflight test that runs behind the gate
isPreflightKeyed(r) ==
    r.req.method = "OPTIONS" /\ KeyOk(r.req.appKey, r.env.FRONTEND_APP_KEY)

\* request.method === "OPTIONS", tested before the gate
isPreflight(r) == r.req.method = "OPTIONS"

\* new Response(null, { headers: cors(origin) })
preflight(origin) == [status |-> 200, headers |-> cors(origin), body |-> Null]

\* !STATE.index
NoIndex(st) == Falsy(st.index)

\* /api/health: forget the index when the configured URL is not the recorded one
healthReset(st, indexUrl) ==
    IF st.indexUrl # indexUrl
    THEN [index |-> Undefined, indexLoadedAt |-> Null, indexUrl |-> indexUrl, loadError |-> Null]
    ELSE st

\* a catch that drops the message of the error
proxyErrorBare(message, origin) == textError("Proxy error", origin, 500)

\* the catch of the outermost try
proxyError(message, origin) == textError("Proxy error: " \o message, origin, 500)

\* a router that takes every path but /api/chat for the health path
fetchEntryHealthDefault(r, st) ==
    LET req == r.req
        env == r.env
    IN  IF isPreflight(r)
        THEN Return(st, preflight(req.origin), <<>>)
        ELSE IF ~KeyOk(req.appKey, env.FRONTEND_APP_KEY)
        THEN Return(st, gateReject(req), <<>>)
        ELSE IF req.path = "/api/chat"
        THEN IF req.method # "POST"
             THEN Return(st, textError("Method Not Allowed", req.origin, 405), <<>>)
             ELSE Suspend(st, r, "chat_body", <<>>, <<>>)
        ELSE LET s1 == healthReset(st, env.INDEX_URL)
             IN  IF NoIndex(s1)
                 THEN Suspend(s1, r, "health_fetch", <<Call("index", JStr(env.INDEX_URL))>>, <<>>)
                 ELSE Suspend(s1, r, "health_hash", <<>>, <<>>)

\* from the entry of the handler to its first await or return
fetchEntry(r, st) ==
    LET req == r.req
        env == r.env
    IN  IF isPreflight(r)
        THEN Return(st, preflight(req.origin), <<>>)
        ELSE IF ~KeyOk(req.appKey, env.FRONTEND_APP_KEY)
        THEN Return(st, gateReject(req), <<>>)
        ELSE IF req.path = "/api/health"
        THEN LET s1 == healthReset(st, env.INDEX_URL)
             IN  IF NoIndex(s1)
                 THEN Suspend(s1, r, "health_fetch", <<Call("index", JStr(env.INDEX_URL))>>, <<>>)
                 ELSE Suspend(s1, r, "health_hash", <<>>, <<>>)
        ELSE IF req.path = "/api/chat"
        THEN IF req.method # "POST"
             THEN Return(st, textError("Method Not Allowed", req.origin, 405), <<>>)
             ELSE Suspend(st, r, "chat_body", <<>>, <<>>)
        ELSE Return(st, textError("Not Found", req.origin, 404), <<>>)

\* /api/health: fetchIndex settled with o at time now
healthFetched(r, o, now, st) ==
    IF o.ok
    THEN Suspend([st EXCEPT !.index = o.value, !.indexLoadedAt = now, !.loadError = Null],
                 r, "health_hash", Settle(r.calls, o), <<>>)
    ELSE Suspend([st EXCEPT !.loadError = o.message],
                 r, "health_hash", Settle(r.calls, o), <<>>)

\* a report whose loaded flag ignores the recorded error
healthBodyIndexOnly(env, now, st) ==
    [ok |-> TRUE, now |-> now, model |-> "gpt-5", promptHash |-> "sha256(sys)",
     rag |-> [indexUrl |-> env.INDEX_URL,
              loaded |-> ~NoIndex(st),
              lastLoaded |-> st.indexLoadedAt,
              count |-> IF NoIndex(st) THEN 0 ELSE st.index.count,
              dims |-> IF NoIndex(st) THEN Null ELSE st.index.dims,
              embedModel |-> "text-embedding-3-large",
              error |-> st.loadError]]

\* /api/health: sha256Hex settled, the status report is built from State
healthBody(env, now, st) ==
    [ok |-> TRUE, now |-> now, model |-> "gpt-5", promptHash |-> "sha256(sys)",
     rag |-> [indexUrl |-> env.INDEX_URL,
              loaded |-> ~NoIndex(st) /\ st.loadError = Null,
              lastLoaded |-> st.indexLoadedAt,
              count |-> IF NoIndex(st) THEN 0 ELSE st.index.count,
              dims |-> IF NoIndex(st) THEN Null ELSE st.index.dims,
              embedModel |-> "text-embedding-3-large",
              error |-> st.loadError]]

healthHashed(r, now, st) ==
    Return(st, [status |-> 200, headers |-> jsonResponseHeaders(r.req.origin),
                body |-> healthBody(r.env, now, st)], r.calls)

\* the userQ of a chat request: userPromptFrom on the messages of its body,
\* each computed once
userQ(r) ==
    CHOOSE q \in {userPromptFrom(messages) :
                    messages \in {messagesOf(body) : body \in {requestJson(r.req.body)}}} : TRUE

\* /api/chat, the index ensured: userPromptFrom throws, or embedQuery starts
chatQuery(st, r, calls) ==
    IF Thrown(userQ(r))
    THEN Return(st, proxyError(userQ(r).message, r.req.origin), calls)
    ELSE Suspend(st, r, "chat_embed", Append(calls, Call("embed", userQ(r))), <<>>)

\* /api/chat: request.json() settled (a body that does not parse becomes {});
\* ensure index
chatEnsure(r, st) ==
    IF NoIndex(st)
    THEN Suspend(st, r, "chat_fetch", <<Call("index", JStr(r.env.INDEX_URL))>>, <<>>)
    ELSE chatQuery(st, r, <<>>)

\* a chat path that swallows the failed load as the health path does
chatFetchedLenient(r, o, now, st) ==
    IF o.ok
    THEN chatQuery([st EXCEPT !.index = o.value, !.indexLoadedAt = now], r, Settle(r.calls, o))
    ELSE chatQuery(st, r, Settle(r.calls, o))

\* /api/chat: fetchIndex settled with o at time now
chatFetched(r, o, now, st) ==
    IF o.ok
    THEN chatQuery([st EXCEPT !.index = o.value, !.indexLoadedAt = now], r, Settle(r.calls, o))
    ELSE Return(st, proxyError(o.message, r.req.origin), Settle(r.calls, o))

\* envIndex.records.map(..) when envIndex is not an index: the TypeError
rankError(index) ==
    IF index = Undefined THEN "Cannot read properties of undefined (reading 'records')"
    ELSE IF index = JNull THEN "Cannot read properties of null (reading 'records')"
    ELSE "Cannot read properties of undefined (reading 'map')"

\* a chat path that asks for the embedding a second time when the first call fails
chatEmbeddedRetry(r, o, st) ==
    IF ~o.ok /\ \A i \in 1..(Len(r.calls) - 1) : r.calls[i].call # "embed"
    THEN Suspend(st, r, "chat_embed", Append(Settle(r.calls, o), Call("embed", userQ(r))), <<>>)
    ELSE IF ~o.ok
    THEN Return(st, proxyError(o.message, r.req.origin), Settle(r.calls, o))
    ELSE IF NoIndex(st)
    THEN Return(st, proxyError(rankError(st.index), r.req.origin), Settle(r.calls, o))
    ELSE Suspend(st, r, "chat_hash", Settle(r.calls, o), rank(st.index, o.value, 3))

\* /api/chat: embedQuery settled with o; rank reads STATE.index, and the
\* handler awaits sha256Hex
chatEmbedded(r, o, st) ==
    IF ~o.ok
    THEN Return(st, proxyError(o.message, r.req.origin), Settle(r.calls, o))
    ELSE IF NoIndex(st)
    THEN Return(st, proxyError(rankError(st.index), r.req.origin), Settle(r.calls, o))
    ELSE Suspend(st, r, "chat_hash", Settle(r.calls, o), rank(st.index, o.value, 3))

\* /api/chat: sha256Hex settled, callChat starts
chatHashed(r, st) == Suspend(st, r, "chat_chat", Append(r.calls, Call("chat", userQ(r))), r.top)

\* a count of the retrieved chunks, not of their characters
RECURSIVE ragCharsOfChunks(_, _)
ragCharsOfChunks(top, n) == IF n = 0 THEN 0 ELSE 1 + ragCharsOfChunks(top, n - 1)

\* top.reduce((s, t) => s + t.rec.text.length, 0)
RECURSIVE ragCharsOf(_, _)
ragCharsOf(top, n) == IF n = 0 THEN 0 ELSE Len(top[n].rec.text) + ragCharsOf(top, n - 1)

\* a merge whose ragUsed says that retrieval ran, not that it found anything
mergedRetrievalRan(openai, top) ==
    [f \in (DOMAIN openai) \cup {"model", "ragUsed", "ragChars", "ragCitations"} |->
        CASE f = "ragUsed" -> TRUE
          [] f = "ragChars" -> ragCharsOf(top, Len(top))
          [] f = "ragCitations" ->
                [i \in 1..Len(top) |-> [file |-> top[i].rec.file,
                                        chunk |-> top[i].rec.chunkIndex,
                                        score |-> top[i].score]]
          [] f = "model" ->
                IF "model" \in DOMAIN openai /\ openai.model # "" /\ openai.model # Null
                THEN openai.model ELSE "gpt-5"
          [] OTHER -> openai[f]]

\* a merge that keeps of the upstream JSON only what the chat page reads
mergedChoicesOnly(openai, top) ==
    [f \in {"choices", "model", "ragUsed", "ragChars", "ragCitations"} |->
        CASE f = "ragUsed" -> Len(top) > 0
          [] f = "ragChars" -> ragCharsOf(top, Len(top))
          [] f = "ragCitations" ->
                [i \in 1..Len(top) |-> [file |-> top[i].rec.file,
                                        chunk |-> top[i].rec.chunkIndex,
                                        score |-> top[i].score]]
          [] f = "model" ->
                IF "model" \in DOMAIN openai /\ openai.model # "" /\ openai.model # Null
                THEN openai.model ELSE "gpt-5"
          [] OTHER -> openai[f]]

\* { ...openai, model: openai.model || env.MODEL || "gpt-5", ragUsed, ragChars,
\* ragCitations } with env.MODEL not set
merged(openai, top) ==
    [f \in (DOMAIN openai) \cup {"model", "ragUsed", "ragChars", "ragCitations"} |->
        CASE f = "ragUsed" -> Len(top) > 0
          [] f = "ragChars" -> ragCharsOf(top, Len(top))
          [] f = "ragCitations" ->
                [i \in 1..Len(top) |-> [file |-> top[i].rec.file,
                                        chunk |-> top[i].rec.chunkIndex,
                                        score |-> top[i].score]]
          [] f = "model" ->
                IF "model" \in DOMAIN openai /\ openai.model # "" /\ openai.model # Null
                THEN openai.model ELSE "gpt-5"
          [] OTHER -> openai[f]]

\* a completion step that drops the cached index when the call fails
chatCompletedInvalidate(r, o, st) ==
    IF o.ok
    THEN Return(st, [status |-> 200, headers |-> jsonResponseHeaders(r.req.origin),
                     body |-> merged(o.value, r.top)], Settle(r.calls, o))
    ELSE Return([st EXCEPT !.index = Undefined, !.indexLoadedAt = Null],
                proxyError(o.message, r.req.origin), Settle(r.calls, o))

\* a completion step that awaits a promise nothing settles when the call fails
chatCompletedStuck(r, o, st) ==
    IF o.ok
    THEN Return(st, [status |-> 200, headers |-> jsonResponseHeaders(r.req.origin),
                     body |-> merged(o.value, r.top)], Settle(r.calls, o))
    ELSE Suspend(st, r, "chat_never", Settle(r.calls, o), r.top)

\* /api/chat: callChat settled with o
chatCompleted(r, o, st) ==
    IF o.ok
    THEN Return(st, [status |-> 200, headers |-> jsonResponseHeaders(r.req.origin),
                     body |-> merged(o.value, r.top)], Settle(r.calls, o))
    ELSE Return(st, proxyError(o.message, r.req.origin), Settle(r.calls, o))

(***************************************************************************)
(* State machine                                                           *)
(***************************************************************************)
Requests(methods, paths, origins, keys, bodies) ==
    [method : methods, path : paths, origin : origins, appKey : keys, body : bodies]
Envs == [FRONTEND_APP_KEY : EnvKeys, INDEX_URL : Urls]

\* a request without a body: request.json() rejects
NoBody == [json |-> FALSE, text |-> ""]

Message(role, content) == JObj([role |-> JStr(role), content |-> content])
Messages(m) == [json |-> TRUE, value |-> JObj([messages |-> m])]

\* the bodies of the chat requests that have one: the last of its messages
\* is not the last message of the user; its messages cannot be spread
RunBodies ==
    {Messages(JArr(<<Message("user", JStr("first")), Message("user", JStr("second")),
                     Message("assistant", JStr("third"))>>)),
     Messages(JNum(5))}

\* the authenticated health and chat requests run concurrently
RunRequests ==
    Requests({"GET"}, {"/api/health"}, RunOrigins, {GoodKey}, {NoBody})
        \cup Requests({"POST"}, {"/api/chat"}, RunOrigins, {GoodKey}, RunBodies)

\* every kind of request without a body, and the chat requests with one, run
\* one at a time
AllRequests ==
    Requests(Methods, Paths, Origins, HeaderKeys, {NoBody})
        \cup Requests({"POST"}, {"/api/chat"}, RunOrigins, {GoodKey}, RunBodies)

Init ==
    /\ State = [index |-> Undefined, indexLoadedAt |-> Null, indexUrl |-> Null,
                loadError |-> Null]
    /\ inflight = EmptyBag
    /\ out = NoOut
    /\ probe = NoProbe

Suspended(pc) == {r \in BagToSet(inflight) : r.pc = pc}

\* r (in flight, or new) ran one piece of the handler with result res
Step(r, res) ==
    /\ State' = res.state
    /\ inflight' = (inflight (-) SetToBag({r})) (+) SetToBag(Range(res.resume))
    /\ out' = IF res.resp = <<>> THEN NoOut
              ELSE [req |-> r.req, env |-> r.env, resp |-> res.resp[1], calls |-> res.calls]
    /\ UNCHANGED probe

Arrive(requests, limit) ==
    /\ out = NoOut
    /\ \E req \in requests, env \in Envs :
          LET r == Incoming(req, env)
              res == fetchEntry(r, State)
          IN  /\ res.resume # <<>> => BagCardinality(inflight) < limit
              /\ Step(r, res)

HealthFetched ==
    /\ out = NoOut
    /\ \E r \in Suspended("health_fetch") :
          \E o \in fetchIndex(r.env.INDEX_URL), now \in Timestamps :
              Step(r, healthFetched(r, o, now, State))

HealthHashed ==
    /\ out = NoOut
    /\ \E r \in Suspended("health_hash"), now \in Timestamps :
          Step(r, healthHashed(r, now, State))

ChatEnsure ==
    /\ out = NoOut
    /\ \E r \in Suspended("chat_body") : Step(r, chatEnsure(r, State))

ChatFetched ==
    /\ out = NoOut
    /\ \E r \in Suspended("chat_fetch") :
          \E o \in fetchIndex(r.env.INDEX_URL), now \in Timestamps :
              Step(r, chatFetched(r, o, now, State))

ChatEmbedded ==
    /\ out = NoOut
    /\ \E r \in Suspended("chat_embed") :
          \E o \in embedQuery : Step(r, chatEmbedded(r, o, State))

ChatHashed ==
    /\ out = NoOut
    /\ \E r \in Suspended("chat_hash") : Step(r, chatHashed(r, State))

ChatCompleted ==
    /\ out = NoOut
    /\ \E r \in Suspended("chat_chat") :
          \E o \in callChat : Step(r, chatCompleted(r, o, State))

\* the runtime takes the Response
Deliver ==
    /\ out # NoOut
    /\ out' = NoOut
    /\ UNCHANGED <<State, inflight, probe>>

Resume ==
    \/ HealthFetched
    \/ HealthHashed
    \/ ChatEnsure
    \/ ChatFetched
    \/ ChatEmbedded
    \/ ChatHashed
    \/ ChatCompleted
    \/ Deliver

ArriveConcurrent == Arrive(RunRequests, MaxInflight)

Next == ArriveConcurrent \/ Resume

Spec == Init /\ [][Next]_vars

ArriveAlone == Arrive(AllRequests, 1)

NextSeq == ArriveAlone \/ Resume

SeqSpec == Init /\ [][NextSeq]_vars

(***************************************************************************)
(* Progress.  Requests in flight are told apart by their request and        *)
(* environment: a request arrives only while no equal one is in flight.     *)
(* An awaited call settles at some time, so the continuation of every       *)
(* suspended request is run at some time.                                   *)
(***************************************************************************)
\* requests the handler answers without an await
SyncRequests ==
    Requests({"GET"}, {"/api/chat", "/api/other"}, RunOrigins, {GoodKey}, {NoBody})
        \cup Requests({"GET"}, {"/api/health"}, RunOrigins, {Null}, {NoBody})

\* the requests that suspend: the health request under every environment,
\* whose arrival under another URL resets the index, and the chat requests
\* under one
AsyncArrivals ==
    {<<req, env>> \in RunRequests \X Envs :
        req.path = "/api/chat" => env.INDEX_URL = "https://kb/a.json"}

\* the arrivals: the requests that suspend, and the requests answered at once
\* under one environment
LiveArrivals ==
    AsyncArrivals \cup (SyncRequests \X {e \in Envs : e.INDEX_URL = "https://kb/a.json"})

InFlight(req, env) == \E r \in BagToSet(inflight) : r.req = req /\ r.env = env

ArriveLive ==
    /\ out = NoOut
    /\ \E <<req, env>> \in LiveArrivals :
          LET r == Incoming(req, env)
              res == fetchEntry(r, State)
          IN  /\ ~InFlight(req, env)
              /\ res.resume # <<>> => BagCardinality(inflight) < MaxInflight
              /\ Step(r, res)

\* the awaited call of r settles and r runs on to its next await or return
ResumeOne(r) ==
    /\ out = NoOut
    /\ \/ /\ r.pc = "health_fetch"
          /\ \E o \in fetchIndex(r.env.INDEX_URL), now \in Timestamps :
                Step(r, healthFetched(r, o, now, State))
       \/ /\ r.pc = "health_hash"
          /\ \E now \in Timestamps : Step(r, healthHashed(r, now, State))
       \/ /\ r.pc = "chat_body"
          /\ Step(r, chatEnsure(r, State))
       \/ /\ r.pc = "chat_fetch"
          /\ \E o \in fetchIndex(r.env.INDEX_URL), now \in Timestamps :
                Step(r, chatFetched(r, o, now, State))
       \/ /\ r.pc = "chat_embed"
          /\ \E o \in embedQuery : Step(r, chatEmbedded(r, o, State))
       \/ /\ r.pc = "chat_hash"
          /\ Step(r, chatHashed(r, State))
       \/ /\ r.pc = "chat_chat"
          /\ \E o \in callChat : Step(r, chatCompleted(r, o, State))

ResumeOf(req, env) ==
    \E r \in BagToSet(inflight) : r.req = req /\ r.env = env /\ ResumeOne(r)

NextLive == ArriveLive \/ Resume

LiveSpec ==
    /\ Init /\ [][NextLive]_vars
    /\ WF_vars(Deliver)
    /\ \A <<req, env>> \in AsyncArrivals : SF_vars(ResumeOf(req, env))

(***************************************************************************)
(* The helpers run on their own.  A probe holds the arguments of one call  *)
(* of a helper and, once the call is done, what it returned.               *)
(***************************************************************************)
\* an index document with one record per embedding; record i is chunk i - 1
ProbeIndex(embs, count) ==
    [created |-> "2024-12-04T00:00:00.000Z", model |-> "text-embedding-3-large", dims |-> 2,
     count |-> count,
     records |-> [i \in 1..Len(embs) |->
                    [id |-> "p", file |-> "p.md", chunkIndex |-> i - 1, text |-> "t",
                     embedding |-> embs[i]]]]

\* fetchIndex returns whatever JSON the URL serves: the count of a document
\* is the number of its records, or is not
ProbeIndexes ==
    {ProbeIndex(embs, c) :
        <<embs, c>> \in {<<e, n>> \in (UNION {[1..n -> ProbeEmbeddings] : n \in 0..MaxRecords})
                                        \X (0..(MaxRecords + 1)) :
                            n \in {Len(e), Len(e) + 1}}}

Probe(fn, args) == [fn |-> fn, args |-> args, done |-> FALSE, ret |-> <<>>]

RankProbes ==
    {Probe("rank", [index |-> x, qEmb |-> q, k |-> k]) :
        x \in ProbeIndexes, q \in ProbeEmbeddings, k \in 0..MaxK}

CosSimProbes ==
    UNION {{Probe("cosSim", [a |-> a, b |-> b]) : a \in ProbeVectors(n), b \in ProbeVectors(n)} :
              n \in 1..MaxDims}

\* file names and chunk texts, in lexemes; the index holds whatever text the
\* knowledge base had, a text that quotes a citation included
ProbeFiles == {<<"a.md">>, <<"b.md">>}
ProbeTexts == {<<"alpha">>, <<"see ", "[file: ", "a.md", ", chunk: ", "1", "]">>}
ProbeMatches ==
    {[rec |-> [id |-> "p", file |-> f, chunkIndex |-> c, text |-> t, embedding |-> <<10, 0>>],
      score |-> DblOf(1)] : f \in ProbeFiles, c \in {0, 1}, t \in ProbeTexts}

ContextProbes ==
    {Probe("buildRagContext", [top |-> top]) :
        top \in UNION {[1..n -> ProbeMatches] : n \in 0..MaxRecords}}

\* the JSON of a completion: with a model, with an empty or no model, and
\* with a field named as one of the fields the merge adds
ProbePayloads ==
    {[id |-> "chatcmpl-1", model |-> "gpt-5-2025", choices |-> "answer"],
     [id |-> "chatcmpl-2", model |-> "", choices |-> "answer"],
     [id |-> "chatcmpl-3", choices |-> "answer"],
     [id |-> "chatcmpl-4", model |-> "gpt-5-2025", choices |-> "answer", ragChars |-> 999]}

MergedProbes ==
    {Probe("merged", [openai |-> o, top |-> top]) :
        o \in ProbePayloads,
        top \in {rank(x, q, 3) : x \in {DocA, DocB, DocEmpty}, q \in QueryEmbeddings}}

InitPure ==
    /\ State = [index |-> Undefined, indexLoadedAt |-> Null, indexUrl |-> Null,
                loadError |-> Null]
    /\ inflight = EmptyBag
    /\ out = NoOut
    /\ probe \in RankProbes \cup CosSimProbes \cup ContextProbes \cup MergedProbes

Returned(v) ==
    /\ ~probe.done
    /\ probe' = [probe EXCEPT !.done = TRUE, !.ret = v]
    /\ UNCHANGED <<State, inflight, out>>

CallRank ==
    /\ probe.fn = "rank"
    /\ Returned(rank(probe.args.index, probe.args.qEmb, probe.args.k))

CallCosSim ==
    /\ probe.fn = "cosSim"
    /\ Returned(cosSim(probe.args.a, probe.args.b))

CallBuildRagContext ==
    /\ probe.fn = "buildRagContext"
    /\ Returned(buildRagContext(probe.args.top))

CallMerged ==
    /\ probe.fn = "merged"
    /\ Returned(merged(probe.args.openai, probe.args.top))

NextPure == CallRank \/ CallCosSim \/ CallBuildRagContext \/ CallMerged

PureSpec == InitPure /\ [][NextPure]_vars

(***************************************************************************)
(* Vocabulary of the properties                                            *)
(***************************************************************************)
\* the handler returned a Response in this step
Responded == out = NoOut /\ out' # NoOut

\* r was suspended at an await in this step
Took(r) == CopiesIn(r, inflight') > CopiesIn(r, inflight)

\* r, in flight, ran a piece of the handler in this step
Left(r) == CopiesIn(r, inflight') < CopiesIn(r, inflight)

\* a request arrived in this step and was suspended at its first await as n
Arrived(n) == Took(n) /\ BagCardinality(inflight') > BagCardinality(inflight)

\* a request arrived in this step and was answered before any await
AnsweredAtOnce == Responded /\ inflight' = inflight

\* the x-app-key header is absent or differs from the configured key
BadKey(req, env) == req.appKey = Null \/ req.appKey # env.FRONTEND_APP_KEY

IsHealth(x) == x.req.path = "/api/health"
IsChat(x) == x.req.path = "/api/chat"

\* the request made one upstream call, the index fetch, and it failed
FailedLoad(calls) == Len(calls) = 1 /\ calls[1].call = "index" /\ calls[1].result = "fail"

HasFailure(calls) == \E i \in DOMAIN calls : calls[i].result = "fail"

CorsHeaderNames ==
    {"access-control-allow-origin", "access-control-allow-headers",
     "access-control-allow-methods", "access-control-expose-headers"}

(***************************************************************************)
(* C1  Access gate.  A request that is not OPTIONS and whose x-app-key is  *)
(* absent or differs from FRONTEND_APP_KEY is answered 403 in the step it   *)
(* arrives, having made no upstream call and leaving State as it was; it    *)
(* is never suspended at an await.                                          *)
(***************************************************************************)
C1_GateRejects ==
    [][ /\ (Responded /\ out'.req.method # "OPTIONS" /\ BadKey(out'.req, out'.env))
              => (out'.resp.status = 403 /\ out'.calls = <<>> /\ State' = State)
        /\ \A r \in BagToSet(inflight') : ~BadKey(r.req, r.env) ]_vars

C1_Witness ==
    /\ out # NoOut
    /\ out.req.appKey = "wrong" /\ out.req.path = "/api/health" /\ out.req.method = "GET"
    /\ out.resp.status = 403
    /\ ~NoIndex(State)

(***************************************************************************)
(* C2  Non-distinguishability.  Whenever the gate has rejected a request,   *)
(* the handler run in the same State on the same method, path and origin    *)
(* gives one and the same response (status, headers, body), the one just    *)
(* returned, whether the key is absent or is any wrong value.               *)
(***************************************************************************)
C2_SameRejection ==
    (out # NoOut /\ out.resp.status = 403) =>
        \A k \in HeaderKeys, env \in Envs :
            BadKey([appKey |-> k], env) =>
                LET missing == fetchEntry(Incoming([out.req EXCEPT !.appKey = Null], env), State)
                    wrong == fetchEntry(Incoming([out.req EXCEPT !.appKey = k], env), State)
                IN  /\ missing.resp = <<out.resp>>
                    /\ wrong.resp = missing.resp
                    /\ wrong.resp[1].status = 403

C2_Witness ==
    /\ out # NoOut
    /\ out.resp.status = 403 /\ out.req.appKey = Null
    /\ out.req.origin = "https://www.cogmyra.com"
    /\ State.loadError # Null

(***************************************************************************)
(* C3  Preflight bypass.  Every OPTIONS request, with any path and any key, *)
(* is answered in the step it arrives with the four CORS headers and a null *)
(* body, is not stopped by the gate, makes no upstream call and leaves      *)
(* State as it was.                                                         *)
(***************************************************************************)
C3_PreflightBypass ==
    [][ /\ (Responded /\ out'.req.method = "OPTIONS")
              => /\ out'.resp.status = 200
                 /\ out'.resp.body = Null
                 /\ DOMAIN out'.resp.headers = CorsHeaderNames
                 /\ out'.resp.headers["access-control-allow-methods"] = "GET, POST, OPTIONS"
                 /\ out'.calls = <<>>
                 /\ State' = State
        /\ \A r \in BagToSet(inflight') : r.req.method # "OPTIONS" ]_vars

C3_Witness ==
    /\ out # NoOut
    /\ out.req.method = "OPTIONS" /\ out.req.appKey = Null /\ out.req.path = "/api/chat"
    /\ out.resp.status = 200 /\ out.resp.body = Null
    /\ ~NoIndex(State)

(***************************************************************************)
(* C4  Health never raises.  As claimed: the response of a health request   *)
(* whose index fetch failed is 200 with ok = true, rag.loaded = false and   *)
(* rag.error the failure message.                                           *)
(***************************************************************************)
C4_Original ==
    (out # NoOut /\ IsHealth(out) /\ FailedLoad(out.calls)) =>
        /\ out.resp.status = 200
        /\ out.resp.body.ok
        /\ ~out.resp.body.rag.loaded
        /\ out.resp.body.rag.error = out.calls[1].error

(***************************************************************************)
(* C4 as amended.  The failed fetch of a health request stores its message  *)
(* in State.loadError in the step it fails; every health response is 200    *)
(* with ok = true; and the response reports rag.loaded = false and          *)
(* rag.error = the message whenever State.loadError still holds that        *)
(* message when the response is built.                                      *)
(***************************************************************************)
C4_HealthNeverRaises ==
    [][ /\ \A r \in BagToSet(inflight') :
              (Took(r) /\ r.pc = "health_hash" /\ FailedLoad(r.calls))
                  => State'.loadError = r.calls[1].error
        /\ (Responded /\ IsHealth(out'))
              => (out'.resp.status = 200 /\ out'.resp.body.ok)
        /\ (Responded /\ IsHealth(out') /\ FailedLoad(out'.calls)
                /\ State.loadError = out'.calls[1].error)
              => /\ ~out'.resp.body.rag.loaded
                 /\ out'.resp.body.rag.error = out'.calls[1].error ]_vars

C4_Witness ==
    /\ out # NoOut /\ IsHealth(out) /\ FailedLoad(out.calls)
    /\ out.resp.status = 200 /\ out.resp.body.ok
    /\ ~out.resp.body.rag.loaded
    /\ out.resp.body.rag.error = "Failed to fetch index: 404 Not Found"
    /\ State.loadError = "Failed to fetch index: 404 Not Found"

(***************************************************************************)
(* C5  Cold-start safety.  Whenever a chat request whose embedding call has  *)
(* succeeded goes on to rank, State.index has not been reset to undefined:  *)
(* the request never fails because State.index was absent when rank read    *)
(* it.                                                                      *)
(***************************************************************************)
C5_IndexPresentAtRank ==
    [][ \A r \in Suspended("chat_embed") :
            (Left(r) /\ ~(Responded /\ HasFailure(out'.calls)))
                => State.index # Undefined ]_vars

(***************************************************************************)
(* C6  Cache reuse.  A request that finds cached an index fetched from the  *)
(* URL it is configured with starts no index fetch.                         *)
(***************************************************************************)
C6_CacheReuse ==
    [][ \A r \in BagToSet(inflight') :
            (Took(r) /\ r.pc \in {"health_fetch", "chat_fetch"})
                => ~(~NoIndex(State) /\ State.index \in IndexAt(r.env.INDEX_URL)) ]_vars

(***************************************************************************)
(* C7  URL change invalidation.  The matches a chat request got from rank   *)
(* are records of a document of the URL the request is configured with.     *)
(***************************************************************************)
C7_RankedAgainstConfigured ==
    \A r \in Suspended("chat_chat") :
        \E d \in Documents(r.env.INDEX_URL) :
            \A i \in DOMAIN r.top : r.top[i].rec \in Range(d.records)

(***************************************************************************)
(* C8  Load side effects.  A State that holds an index holds no loadError.  *)
(***************************************************************************)
C8_NoErrorWithIndex == ~NoIndex(State) => State.loadError = Null

(***************************************************************************)
(* C9  Error propagation.  A chat request one of whose upstream calls       *)
(* failed is answered 500, as text/plain, with "Proxy error: " and the      *)
(* message of the failure; it goes no further after the failure, so it      *)
(* never answers 200.                                                       *)
(***************************************************************************)
C9_ErrorPropagation ==
    /\ (out # NoOut /\ IsChat(out) /\ HasFailure(out.calls)) =>
          /\ out.resp.status = 500
          /\ out.resp.headers["content-type"] = "text/plain; charset=utf-8"
          /\ out.resp.body = "Proxy error: " \o out.calls[Len(out.calls)].error
    /\ \A r \in BagToSet(inflight) : IsChat(r) => ~HasFailure(r.calls)

C9_Witness ==
    /\ out # NoOut /\ IsChat(out)
    /\ Len(out.calls) = 3 /\ out.calls[3].call = "chat" /\ out.calls[3].result = "fail"
    /\ out.resp.status = 500
    /\ out.resp.body = "Proxy error: OpenAI error 500: upstream"

(***************************************************************************)
(* C10  Chat step ordering.  The calls of a chat request are, in order, the *)
(* index fetch (started only when State.index is absent), the embedding and *)
(* the completion; every call but the last has succeeded, and the last is   *)
(* pending while the request is suspended, except while it awaits the       *)
(* digest of the prompt, between the embedding that succeeded and the       *)
(* completion that has not started.                                         *)
(***************************************************************************)
CallNames(calls) == [i \in DOMAIN calls |-> calls[i].call]

ChatOrders ==
    {<<>>, <<"index">>, <<"index", "embed">>, <<"index", "embed", "chat">>,
     <<"embed">>, <<"embed", "chat">>}

InOrder(calls) ==
    /\ CallNames(calls) \in ChatOrders
    /\ \A i \in 1..(Len(calls) - 1) : calls[i].result = "ok"

C10_ChatOrder ==
    [][ /\ \A r \in BagToSet(inflight') :
              IsChat(r) =>
                  /\ InOrder(r.calls)
                  /\ r.calls # <<>> =>
                        r.calls[Len(r.calls)].result =
                            IF r.pc = "chat_hash" THEN "ok" ELSE "pending"
                  /\ r.pc = "chat_hash" =>
                        r.calls # <<>> /\ r.calls[Len(r.calls)].call = "embed"
                  /\ (Took(r) /\ r.pc = "chat_fetch") => NoIndex(State)
        /\ (Responded /\ IsChat(out')) => InOrder(out'.calls) ]_vars

C10_Witness ==
    /\ out # NoOut /\ IsChat(out)
    /\ out.resp.status = 200
    /\ CallNames(out.calls) = <<"index", "embed", "chat">>
    /\ \A i \in DOMAIN out.calls : out.calls[i].result = "ok"

\* the call logs of the requests in flight and of the request just answered
CallLogs ==
    {r.calls : r \in BagToSet(inflight)} \cup (IF out = NoOut THEN {} ELSE {out.calls})

(***************************************************************************)
(* C11  No retries.  In the call log of every request, in flight or just    *)
(* answered, the index fetch, the embedding call and the completion call    *)
(* each occur at most once, and a call that failed is the last call the     *)
(* request made: nothing is issued again after a failure.                   *)
(***************************************************************************)
C11_NoRetries ==
    \A log \in CallLogs :
        /\ \A i, j \in DOMAIN log : log[i].call = log[j].call => i = j
        /\ \A i \in DOMAIN log : log[i].result = "fail" => i = Len(log)

C11_Witness ==
    /\ out # NoOut /\ IsChat(out)
    /\ out.resp.status = 500
    /\ Len(out.calls) = 2
    /\ out.calls[1].call = "index" /\ out.calls[1].result = "ok"
    /\ out.calls[2].call = "embed" /\ out.calls[2].result = "fail"

(***************************************************************************)
(* C12  Not found.  An authenticated request that is not OPTIONS and whose  *)
(* path is neither /api/health nor /api/chat is answered 404 "Not Found"    *)
(* in the step it arrives, having made no upstream call and leaving State   *)
(* as it was; it is never suspended at an await.                            *)
(***************************************************************************)
C12_NotFound ==
    [][ /\ (/\ Responded
            /\ out'.req.method # "OPTIONS"
            /\ ~BadKey(out'.req, out'.env)
            /\ out'.req.path \notin {"/api/health", "/api/chat"})
              => /\ out'.resp.status = 404
                 /\ out'.resp.body = "Not Found"
                 /\ out'.calls = <<>>
                 /\ State' = State
        /\ \A r \in BagToSet(inflight') : r.req.path \in {"/api/health", "/api/chat"} ]_vars

C12_Witness ==
    /\ out # NoOut
    /\ out.req.path = "/api/other" /\ out.req.method = "POST" /\ out.req.appKey = GoodKey
    /\ out.resp.status = 404
    /\ ~NoIndex(State)

\* a call of the helper fn on its own has returned
Done(fn) == probe.fn = fn /\ probe.done

(***************************************************************************)
(* C13  rank(index, q, k) returns exactly min(k, index.count) matches, for  *)
(* every index, every query and every k >= 0.                               *)
(***************************************************************************)
C13_RankLength ==
    Done("rank") => Len(probe.ret) = Min(probe.args.k, probe.args.index.count)

(***************************************************************************)
(* C14  Empty index.  When the cached index has count 0 and no records, a   *)
(* chat request whose embedding call succeeds goes on, through the digest   *)
(* of the prompt, to the completion call with the empty sequence of matches *)
(* (it is answered at that point only if the embedding call failed); and a  *)
(* chat request with no matches whose completion call succeeds is answered  *)
(* 200 with ragUsed false, ragChars 0 and ragCitations empty.               *)
(***************************************************************************)
C14_EmptyIndex ==
    [][ \A r \in BagToSet(inflight) :
          /\ (/\ r.pc = "chat_embed" /\ Left(r)
              /\ ~NoIndex(State) /\ State.index.count = 0 /\ State.index.records = <<>>)
                => IF Responded
                   THEN out'.calls[Len(out'.calls)].result = "fail"
                   ELSE \E n \in BagToSet(inflight') :
                           /\ Took(n) /\ n.req = r.req /\ n.env = r.env
                           /\ n.pc = "chat_hash" /\ n.top = <<>>
          /\ (r.pc = "chat_hash" /\ Left(r) /\ r.top = <<>>)
                => /\ ~Responded
                   /\ \E n \in BagToSet(inflight') :
                           /\ Took(n) /\ n.req = r.req /\ n.env = r.env
                           /\ n.pc = "chat_chat" /\ n.top = <<>>
                           /\ n.calls[Len(n.calls)] = Call("chat", userQ(n))
          /\ (/\ r.pc = "chat_chat" /\ Left(r) /\ r.top = <<>>
              /\ out'.calls[Len(out'.calls)].result = "ok")
                => /\ out'.resp.status = 200
                   /\ out'.resp.body.ragUsed = FALSE
                   /\ out'.resp.body.ragChars = 0
                   /\ out'.resp.body.ragCitations = <<>> ]_vars

C14_Witness ==
    /\ out # NoOut /\ IsChat(out)
    /\ out.resp.status = 200
    /\ out.resp.body.ragUsed = FALSE
    /\ out.resp.body.ragCitations = <<>>
    /\ State.index = DocEmpty

SameScore(x, y) == ~ScoreGreater(x, y) /\ ~ScoreGreater(y, x)

(***************************************************************************)
(* C15  Rank order.  The matches rank returns are in non-increasing score   *)
(* order, two matches of equal score stand in the order of their records    *)
(* in the index, and calling rank again on the same arguments gives the     *)
(* same sequence.                                                           *)
(***************************************************************************)
C15_RankOrder ==
    Done("rank") =>
        /\ \A i, j \in DOMAIN probe.ret :
              i < j => /\ ~ScoreGreater(probe.ret[j].score, probe.ret[i].score)
                       /\ SameScore(probe.ret[i].score, probe.ret[j].score)
                             => probe.ret[i].rec.chunkIndex < probe.ret[j].rec.chunkIndex
        /\ probe.ret = rank(probe.args.index, probe.args.qEmb, probe.args.k)

\* three matches: the first came from the last record, the other two tie
C15_Witness ==
    /\ Done("rank") /\ Len(probe.ret) = 3
    /\ probe.ret[1].rec.chunkIndex = 2
    /\ ScoreGreater(probe.ret[1].score, probe.ret[2].score)
    /\ SameScore(probe.ret[2].score, probe.ret[3].score)
    /\ probe.ret[2].score.sign # 0
    /\ probe.ret[2].rec.embedding # probe.ret[3].rec.embedding

\* the records [1, 0], [0, 1], [0.7, 0.7] and the query [1, 0], in tenths
ScenarioIndex == ProbeIndex(<< <<10, 0>>, <<0, 10>>, <<7, 7>> >>, 3)
ScenarioQuery == <<10, 0>>

(***************************************************************************)
(* C16  Ranking scenario.  On the index of the three records [1, 0],        *)
(* [0, 1], [0.7, 0.7] and the query [1, 0], rank with k = 2 returns the     *)
(* first record and then the third.                                         *)
(***************************************************************************)
C16_Scenario ==
    (/\ Done("rank")
     /\ probe.args.index = ScenarioIndex
     /\ probe.args.qEmb = ScenarioQuery
     /\ probe.args.k = 2)
        => /\ Len(probe.ret) = 2
           /\ probe.ret[1].rec = ScenarioIndex.records[1]
           /\ probe.ret[2].rec = ScenarioIndex.records[3]

C16_Witness ==
    /\ Done("rank")
    /\ probe.args = [index |-> ScenarioIndex, qEmb |-> ScenarioQuery, k |-> 2]
    /\ ScoreGreater(probe.ret[1].score, probe.ret[2].score)
    /\ ScoreGreater(probe.ret[2].score, Zero)

IsZero(v) == \A i \in DOMAIN v : v[i] = 0
Orthogonal(a, b) == SumTo([i \in DOMAIN a |-> a[i] * b[i]], Len(a)) = 0

(***************************************************************************)
(* C17  Zero-vector guard.  For two vectors of equal length of which at     *)
(* least one is the zero vector, cosSim returns the number 0 of the guard;  *)
(* no call returns NaN; and two non-zero orthogonal vectors score 0.        *)
(***************************************************************************)
C17_ZeroGuard ==
    Done("cosSim") =>
        /\ probe.ret # NaN
        /\ (IsZero(probe.args.a) \/ IsZero(probe.args.b)) => probe.ret = Zero
        /\ Orthogonal(probe.args.a, probe.args.b) => probe.ret = Zero

C17_Witness ==
    /\ Done("cosSim")
    /\ IsZero(probe.args.a) /\ ~IsZero(probe.args.b) /\ Len(probe.args.a) = 2
    /\ probe.ret = Zero

\* the chunk indexes a citation tag may carry
TagNumbers == 0..9

\* s[i..j] is a citation tag: it is citeTag(file, n) for the file s[i+1..j-3]
\* and a number n
IsTag(s, i, j) ==
    \E n \in TagNumbers : SubSeq(s, i, j) = citeTag(SubSeq(s, i + 1, j - 3), n)

\* the end of the shortest citation tag that starts at i (0: none starts there)
TagEnd(s, i) ==
    LET ends == {j \in (i + 4)..Len(s) : IsTag(s, i, j)}
    IN  IF ends = {} THEN 0 ELSE CHOOSE j \in ends : \A e \in ends : j <= e

TagStarts(s) == {i \in DOMAIN s : TagEnd(s, i) # 0}

\* the citation tags of s from position i on, read from left to right
RECURSIVE ExtractFrom(_, _)
ExtractFrom(s, i) ==
    IF i > Len(s) THEN <<>>
    ELSE IF TagEnd(s, i) = 0 THEN ExtractFrom(s, i + 1)
    ELSE LET j == TagEnd(s, i)
         IN  <<[file |-> SubSeq(s, i + 1, j - 3),
                chunkIndex |-> CHOOSE n \in TagNumbers : ToString(n) = s[j - 1]]>>
                 \o ExtractFrom(s, j + 1)

ExtractTags(s) == ExtractFrom(s, 1)

\* tag occurs in s
Occurs(tag, s) == \E i \in DOMAIN s : SubSeq(s, i, i + Len(tag) - 1) = tag

(***************************************************************************)
(* C18  Context assembly.  For every sequence of matches, the output of     *)
(* buildRagContext is the blocks of the matches in their order, joined by   *)
(* the separator; the output holds the citation tag of every match, built   *)
(* from the file and chunkIndex of its record; and it holds exactly as many *)
(* citation tags as there are matches.                                      *)
(***************************************************************************)
C18_ContextTags ==
    Done("buildRagContext") =>
        LET top == probe.args.top
        IN  /\ probe.ret = JoinBlocks([i \in 1..Len(top) |-> ragBlock(top[i].rec)], Len(top))
            /\ \A i \in DOMAIN top :
                  Occurs(citeTag(top[i].rec.file, top[i].rec.chunkIndex), probe.ret)
            /\ Cardinality(TagStarts(probe.ret)) = Len(top)

(***************************************************************************)
(* C19  Citation round-trip.  For every sequence of matches, the citation   *)
(* tags extracted from the output of buildRagContext are the (file,         *)
(* chunkIndex) pairs of the matches: one per match, in the same order.      *)
(***************************************************************************)
C19_RoundTrip ==
    Done("buildRagContext") =>
        ExtractTags(probe.ret) =
            [i \in 1..Len(probe.args.top) |->
                [file |-> probe.args.top[i].rec.file,
                 chunkIndex |-> probe.args.top[i].rec.chunkIndex]]

\* the fields the merge sets itself
MergeSets == {"model", "ragUsed", "ragChars", "ragCitations"}

MergeAdds(openai, top, ret) ==
    /\ ret.ragUsed = (Len(top) > 0)
    /\ ret.ragChars = ragCharsOf(top, Len(top))
    /\ ret.ragCitations = [i \in 1..Len(top) |->
                              [file |-> top[i].rec.file, chunk |-> top[i].rec.chunkIndex,
                               score |-> top[i].score]]

(***************************************************************************)
(* C20 as stated.  Every field of the upstream completion JSON is in the    *)
(* merged body with its original value, and ragUsed, ragChars and           *)
(* ragCitations are added.                                                  *)
(***************************************************************************)
C20_Original ==
    Done("merged") =>
        /\ \A f \in DOMAIN probe.args.openai :
              f \in DOMAIN probe.ret /\ probe.ret[f] = probe.args.openai[f]
        /\ MergeAdds(probe.args.openai, probe.args.top, probe.ret)

(***************************************************************************)
(* C20  Merge preserves the upstream payload.  Every field of the upstream  *)
(* completion JSON other than model, ragUsed, ragChars and ragCitations is  *)
(* in the merged body with its original value; model is the upstream model  *)
(* when that is a non-empty string and "gpt-5" otherwise; ragUsed, ragChars *)
(* and ragCitations are set from the matches, whatever the upstream JSON    *)
(* held under these names; the body has no other field.                     *)
(***************************************************************************)
C20_MergeKeeps ==
    Done("merged") =>
        LET openai == probe.args.openai
        IN  /\ DOMAIN probe.ret = (DOMAIN openai) \cup MergeSets
            /\ \A f \in (DOMAIN openai) \ MergeSets : probe.ret[f] = openai[f]
            /\ probe.ret.model =
                  IF "model" \in DOMAIN openai /\ openai.model # "" THEN openai.model
                  ELSE "gpt-5"
            /\ MergeAdds(openai, probe.args.top, probe.ret)

C20_Witness ==
    /\ Done("merged")
    /\ probe.args.openai.id = "chatcmpl-2" /\ probe.args.openai.model = ""
    /\ probe.ret.id = "chatcmpl-2" /\ probe.ret.model = "gpt-5"
    /\ probe.ret.ragUsed

(***************************************************************************)
(* C21  Retrieval metadata consistency.  When a chat request is answered   *)
(* 200, ragCitations of the body lists the matches rank returned for that   *)
(* request, in rank order, as (file, chunk = chunkIndex, score); ragUsed is *)
(* true exactly when ragCitations is not empty; and ragChars is the sum of  *)
(* the lengths of the texts of the matches.                                 *)
(***************************************************************************)
C21_Metadata ==
    [][ \A r \in BagToSet(inflight) :
          (r.pc = "chat_chat" /\ Left(r) /\ out'.resp.status = 200) =>
              LET body == out'.resp.body
              IN  /\ DOMAIN body.ragCitations = DOMAIN r.top
                  /\ \A i \in DOMAIN r.top :
                        body.ragCitations[i] = [file |-> r.top[i].rec.file,
                                                chunk |-> r.top[i].rec.chunkIndex,
                                                score |-> r.top[i].score]
                  /\ body.ragUsed = (body.ragCitations # <<>>)
                  /\ body.ragChars = SumTo([i \in DOMAIN r.top |-> Len(r.top[i].rec.text)],
                                           Len(r.top)) ]_vars

\* both chunks of a.md retrieved: "alpha" and "be", seven characters
C21_Witness ==
    /\ out # NoOut /\ IsChat(out) /\ out.resp.status = 200
    /\ Len(out.resp.body.ragCitations) = 2
    /\ out.resp.body.ragCitations[2].chunk = 1
    /\ out.resp.body.ragChars = 7

\* the Origin of the request is one of ALLOW_ORIGIN
Allowed(origin) == \E i \in DOMAIN ALLOW_ORIGIN : ALLOW_ORIGIN[i] = origin

(***************************************************************************)
(* C22  Origin allow-list.  Every response (preflight, 403, 404, 405, 500,  *)
(* health, chat) carries access-control-allow-origin equal to the Origin of *)
(* the request when that is in the allow-list and equal to                  *)
(* https://cogmyra.com otherwise, an absent Origin included; the value is   *)
(* never "*" and never an origin outside the allow-list.                    *)
(***************************************************************************)
C22_AllowList ==
    out # NoOut =>
        LET acao == out.resp.headers["access-control-allow-origin"]
        IN  /\ acao = IF Allowed(out.req.origin) THEN out.req.origin ELSE "https://cogmyra.com"
            /\ acao # "*"
            /\ Allowed(acao)

C22_Witness ==
    /\ out # NoOut /\ IsChat(out) /\ out.resp.status = 200
    /\ out.req.origin = "https://evil.example"
    /\ out.resp.headers["access-control-allow-origin"] = "https://cogmyra.com"

(***************************************************************************)
(* C23  Health status accuracy.  In every health response, rag.loaded is    *)
(* true exactly when an index is cached in State at the time of the         *)
(* response, and rag.error is non-null only if no index is cached.          *)
(***************************************************************************)
C23_HealthAccuracy ==
    (out # NoOut /\ IsHealth(out) /\ out.resp.status = 200 /\ out.req.method # "OPTIONS") =>
        /\ out.resp.body.rag.loaded = ~NoIndex(State)
        /\ out.resp.body.rag.error # Null => NoIndex(State)

(***************************************************************************)
(* C24  Snapshot provenance.  Whenever State holds an index and a non-null  *)
(* indexUrl, the index is a document served at that indexUrl.               *)
(***************************************************************************)
C24_Provenance ==
    (~NoIndex(State) /\ State.indexUrl # Null) => State.index \in IndexAt(State.indexUrl)

(***************************************************************************)
(* C25  Atomic replacement.  In every reachable state, the states in which  *)
(* requests are suspended at an await (or were abandoned there) included,   *)
(* State.index and State.indexLoadedAt are both set or both absent.         *)
(***************************************************************************)
C25_Atomic == NoIndex(State) <=> State.indexLoadedAt = Null

(***************************************************************************)
(* C27  Malformed index rejection.  A document that does not have the       *)
(* expected shape is never installed: the count of every cached index is    *)
(* the number of its records.                                               *)
(***************************************************************************)
C27_WellFormedCache ==
    ~NoIndex(State) => State.index.count = Len(State.index.records)

\* the messages of a body as written: the elements of its messages array, and
\* none when the body has no such array
Written(body) ==
    IF /\ body.json /\ body.value.type = "object"
       /\ "messages" \in DOMAIN body.value.fields
       /\ body.value.fields.messages.type = "array"
    THEN body.value.fields.messages.items ELSE <<>>

UserMessages(m) == {i \in DOMAIN m : m[i] # JNull /\ IsUser(m[i])}

\* the content of a message, a message without content or with content null
\* having the empty content
Content(m) ==
    IF "content" \in DOMAIN m.fields /\ m.fields.content # JNull
    THEN m.fields.content ELSE JStr("")

\* the content of the last user message of a body, the empty string when it
\* has none
Query(body) ==
    LET m == Written(body)
        users == UserMessages(m)
    IN  IF users = {} THEN JStr("")
        ELSE Content(m[CHOOSE i \in users : \A j \in users : j <= i])

\* r, a chat request in flight, has its index ensured in this step: it found
\* one cached, or its index fetch has not failed
Ensured(r) ==
    /\ Left(r)
    /\ \/ r.pc = "chat_body" /\ ~NoIndex(State)
       \/ r.pc = "chat_fetch" /\ ~(Responded /\ HasFailure(out'.calls))

(***************************************************************************)
(* C26  Query extraction.  Whatever its body, a chat request whose index is *)
(* ensured goes on to the embedding call, and after the embedding and the   *)
(* digest to the completion call, and hands to both the same query: the     *)
(* content of the last message with role "user" of the body, and the empty  *)
(* string when the body has no user message, has no messages field, or is   *)
(* not valid JSON.  It is not answered at that point.                       *)
(***************************************************************************)
C26_Query ==
    [][ \A r \in BagToSet(inflight) :
          /\ Ensured(r) =>
                \E n \in BagToSet(inflight') :
                    /\ Took(n) /\ n.req = r.req /\ n.env = r.env
                    /\ n.pc = "chat_embed"
                    /\ n.calls[Len(n.calls)] = Call("embed", Query(r.req.body))
          /\ (Left(r) /\ r.pc = "chat_hash") =>
                \E n \in BagToSet(inflight') :
                    /\ Took(n) /\ n.req = r.req /\ n.env = r.env
                    /\ n.pc = "chat_chat"
                    /\ n.calls[Len(n.calls)] = Call("chat", Query(r.req.body)) ]_vars

(***************************************************************************)
(* C28  Health recovery.  An authenticated health request that arrives      *)
(* while the failed load of an earlier health request for the same URL is   *)
(* on record starts the index fetch again and is not answered before it;    *)
(* and the response of a health request whose fetch gave an index reports   *)
(* rag.loaded = true and rag.error = null.                                  *)
(***************************************************************************)
C28_HealthRecovery ==
    [][ /\ \A n \in BagToSet(inflight') :
              (/\ Arrived(n) /\ IsHealth(n)
               /\ State.loadError # Null /\ n.env.INDEX_URL = State.indexUrl)
                  => /\ n.pc = "health_fetch"
                     /\ n.calls = <<Call("index", JStr(n.env.INDEX_URL))>>
        /\ ~(/\ AnsweredAtOnce /\ IsHealth(out')
             /\ out'.req.method # "OPTIONS" /\ ~BadKey(out'.req, out'.env)
             /\ State.loadError # Null /\ out'.env.INDEX_URL = State.indexUrl)
        /\ (/\ Responded /\ IsHealth(out') /\ out'.resp.status = 200
            /\ out'.calls # <<>> /\ out'.calls[1].result = "ok" /\ ~NoIndex(State))
               => /\ out'.resp.body.rag.loaded = TRUE
                  /\ out'.resp.body.rag.error = Null ]_vars

Statuses == {200, 403, 404, 405, 500}

Answered(req, env) == out # NoOut /\ out.req = req /\ out.env = env

(***************************************************************************)
(* C30  Exactly one response per request.  When every awaited upstream      *)
(* call settles, every request in flight is answered at some time, under    *)
(* every interleaving with other requests; a response has status 200, 403,  *)
(* 404, 405 or 500; and the request a response answers is in flight no      *)
(* more, so it is answered once.                                            *)
(***************************************************************************)
C30_OneResponse ==
    /\ \A <<req, env>> \in AsyncArrivals : InFlight(req, env) ~> Answered(req, env)
    /\ [][ Responded => /\ out'.resp.status \in Statuses
                        /\ \A r \in BagToSet(inflight') :
                              ~(r.req = out'.req /\ r.env = out'.env) ]_vars

\* a chat request is answered 200 after its three calls while a health request
\* is still suspended
C30_Witness ==
    /\ out # NoOut /\ IsChat(out) /\ out.resp.status = 200
    /\ Len(out.calls) = 3
    /\ \E r \in BagToSet(inflight) : IsHealth(r)

====
